---- MODULE Spec2Model ----
(***************************************************************************)
(* Threshold estimation for 2AFC trial data                                *)
(* (Assets/PythonScripts/psychophysical_analysis.py).                      *)
(*                                                                         *)
(* Numbers.  A finite real is an exact rational [n |-> p, d |-> q] in      *)
(* lowest terms with q > 0; numpy's nan is NaN and Python's None is None.  *)
(* Stimulus intensities (cmpPx) are integers in the model.  numpy arrays   *)
(* are sequences.                                                          *)
(***************************************************************************)
EXTENDS Integers, Sequences, FiniteSets, TLC

VARIABLES
    dataset_data,      \* the sessions of the dataset under analysis
    call,              \* the last call made on it: function, arguments, return
    optimizer_calls,   \* number of curve_fit invocations so far
    pc,                \* position of main()
    all_data,          \* main(): the loaded datasets, in DATASETS order
    next_dataset,      \* main(): index of the next dataset to analyse
    results,           \* main(): list of result records
    threshold_summary, \* main(): list of summary rows
    analysed,          \* main(): how often each loaded dataset was analysed
    cwd,               \* the process-wide current directory (os.getcwd())
    original_dir       \* load_and_process_data(): the directory it saved

vars == <<dataset_data, call, optimizer_calls, pc, all_data, next_dataset,
          results, threshold_summary, analysed, cwd, original_dir>>

----------------------------------------------------------------------------
(* Bounds of the model *)

\* largest stimulus intensity; intensities range over -1..MaxIntensity
MaxIntensity == 2
\* most trials recorded at one intensity
MaxPerLevel == 2
\* most trials in one dataset
MaxTrials == 8

Intensities == (-1)..MaxIntensity

----------------------------------------------------------------------------
(* Values *)

None == [none |-> TRUE]
NaN == [nan |-> TRUE]
\* a numpy array as a value that can stand where None can
Arr(s) == [arr |-> s]

Abs(i) == IF i < 0 THEN -i ELSE i

RECURSIVE GCD(_, _)
GCD(p, q) == IF q = 0 THEN p ELSE GCD(q, p % q)

\* the rational p/q (q /= 0) in lowest terms with a positive denominator
Rat(p, q) ==
    LET g == GCD(Abs(p), Abs(q))
        s == IF q < 0 THEN -1 ELSE 1
    IN  [n |-> (s * p) \div g, d |-> (s * q) \div g]

FromInt(i) == [n |-> i, d |-> 1]
IsNum(v) == DOMAIN v = {"n", "d"}
IsNaN(v) == v = NaN

RAdd(u, v) == Rat(u.n * v.d + v.n * u.d, u.d * v.d)
RSub(u, v) == Rat(u.n * v.d - v.n * u.d, u.d * v.d)
RMul(u, v) == Rat(u.n * v.n, u.d * v.d)
RDiv(u, v) == Rat(u.n * v.d, u.d * v.n)
RLt(u, v) == u.n * v.d < v.n * u.d
RLe(u, v) == u.n * v.d <= v.n * u.d

\* target_performance = 0.707
TargetPerMille == 707
Target == Rat(TargetPerMille, 1000)

----------------------------------------------------------------------------
(* numpy helpers *)

SetMin(S) == CHOOSE x \in S : \A y \in S : x <= y
SetMax(S) == CHOOSE x \in S : \A y \in S : y <= x

\* np.unique: the distinct values of an array
Unique(arr) == {arr[i] : i \in DOMAIN arr}

\* np.sort of a set of distinct integers: ascending sequence
RECURSIVE SortAsc(_)
SortAsc(S) == IF S = {} THEN <<>>
              ELSE LET m == SetMin(S) IN <<m>> \o SortAsc(S \ {m})

\* np.min / np.max of an integer array
ArrMin(arr) == SetMin(Unique(arr))
ArrMax(arr) == SetMax(Unique(arr))

\* np.min / np.max of an array of rationals
RArrMin(arr) == arr[CHOOSE i \in DOMAIN arr : \A j \in DOMAIN arr : RLe(arr[i], arr[j])]
RArrMax(arr) == arr[CHOOSE i \in DOMAIN arr : \A j \in DOMAIN arr : RLe(arr[j], arr[i])]

\* np.sum(mask) for mask = (cmpPx_values == cmpPx)
CountAt(cmpPx_values, cmpPx) ==
    Cardinality({i \in DOMAIN cmpPx_values : cmpPx_values[i] = cmpPx})

\* variant of CorrectAt: the mask is not applied
CorrectAt_unmasked(cmpPx_values, correct_responses, cmpPx) ==
    Cardinality({i \in DOMAIN cmpPx_values : correct_responses[i]})

\* np.sum(correct_responses[mask])
CorrectAt(cmpPx_values, correct_responses, cmpPx) ==
    Cardinality({i \in DOMAIN cmpPx_values :
                    cmpPx_values[i] = cmpPx /\ correct_responses[i]})

----------------------------------------------------------------------------
(* simple_threshold_estimate *)

\* variant of simple_keeps_level: single-trial levels are kept
simple_keeps_level_any(trials_at_level) == trials_at_level >= 1
\* if trials_at_level >= 2
simple_keeps_level(trials_at_level) == trials_at_level >= 2

\* the aggregation loop of simple_threshold_estimate
simple_levels(cmpPx_values, correct_responses) ==
    LET unique_cmpPx == SortAsc(Unique(cmpPx_values))
        x_data == SelectSeq(unique_cmpPx,
                            LAMBDA c : simple_keeps_level(CountAt(cmpPx_values, c)))
    IN  [x_data |-> x_data,
         y_data |-> [i \in DOMAIN x_data |->
                        Rat(CorrectAt(cmpPx_values, correct_responses, x_data[i]),
                            CountAt(cmpPx_values, x_data[i]))],
         n_trials |-> [i \in DOMAIN x_data |-> CountAt(cmpPx_values, x_data[i])]]

\* variant of transition_index: the last level at or above target
transition_index_last(above_target) == SetMax(above_target)
\* transition_idx = np.where(above_target)[0][0]
transition_index(above_target) == SetMin(above_target)

\* variant of interpolate: the midpoint of the bracket
interpolate_midpoint(x1, y1, x2, y2, target_performance) ==
    RDiv(RAdd(x1, x2), FromInt(2))
\* threshold = x1 + (target_performance - y1) * (x2 - x1) / (y2 - y1)
interpolate(x1, y1, x2, y2, target_performance) ==
    RAdd(x1, RDiv(RMul(RSub(target_performance, y1), RSub(x2, x1)), RSub(y2, y1)))

\* the branch taken on the aggregated levels (at least 3 of them) and the
\* threshold it computes
simple_interpolation(x_data, y_data, target_performance) ==
    LET below_target == {i \in DOMAIN y_data : RLt(y_data[i], target_performance)}
        above_target == {i \in DOMAIN y_data : ~RLt(y_data[i], target_performance)}
    IN  IF below_target = {} \/ above_target = {}
        THEN IF \A i \in DOMAIN y_data : ~RLt(y_data[i], target_performance)
             THEN \* np.min(x_data) - (np.min(x_data) * 0.1)
                  [branch |-> "all_above",
                   threshold |-> RSub(FromInt(ArrMin(x_data)),
                                      RMul(FromInt(ArrMin(x_data)), Rat(1, 10)))]
             ELSE \* np.max(x_data) + (np.max(x_data) * 0.1)
                  [branch |-> "all_below",
                   threshold |-> RAdd(FromInt(ArrMax(x_data)),
                                      RMul(FromInt(ArrMax(x_data)), Rat(1, 10)))]
        ELSE LET transition_idx == transition_index(above_target)
             IN  IF transition_idx = 1
                 THEN [branch |-> "first_level", threshold |-> FromInt(x_data[1])]
                 ELSE LET x1 == FromInt(x_data[transition_idx - 1])
                          y1 == y_data[transition_idx - 1]
                          x2 == FromInt(x_data[transition_idx])
                          y2 == y_data[transition_idx]
                      IN  IF y2 /= y1
                          THEN [branch |-> "interpolated",
                                threshold |-> interpolate(x1, y1, x2, y2,
                                                          target_performance)]
                          ELSE [branch |-> "flat_midpoint",
                                threshold |-> RDiv(RAdd(x1, x2), FromInt(2))]

\* the threshold computed from the aggregated levels (at least 3 of them)
simple_threshold(x_data, y_data, target_performance) ==
    simple_interpolation(x_data, y_data, target_performance).threshold

\* variant of simple_too_few_levels: three levels are too few
simple_too_few_levels_4(n_levels) == n_levels < 4
\* if len(x_data) < 3
simple_too_few_levels(n_levels) == n_levels < 3

simple_threshold_estimate(cmpPx_values, correct_responses, target_performance) ==
    LET lv == simple_levels(cmpPx_values, correct_responses)
    IN  [threshold |-> IF simple_too_few_levels(Len(lv.x_data))
                       THEN NaN
                       ELSE simple_threshold(lv.x_data, lv.y_data, target_performance),
         x_data |-> Arr(lv.x_data),
         y_data |-> Arr(lv.y_data),
         n_trials |-> Arr(lv.n_trials)]

----------------------------------------------------------------------------
(* fit_psychophysical_curve *)

\* variant of fit_keeps_level: single-trial levels are kept
fit_keeps_level_any(trials_at_level) == trials_at_level >= 1
\* if trials_at_level >= 2
fit_keeps_level(trials_at_level) == trials_at_level >= 2

\* the aggregation loop of fit_psychophysical_curve
fit_levels(cmpPx_values, correct_responses) ==
    LET unique_cmpPx == SortAsc(Unique(cmpPx_values))
        x_data == SelectSeq(unique_cmpPx,
                            LAMBDA c : fit_keeps_level(CountAt(cmpPx_values, c)))
    IN  [x_data |-> x_data,
         y_data |-> [i \in DOMAIN x_data |->
                        Rat(CorrectAt(cmpPx_values, correct_responses, x_data[i]),
                            CountAt(cmpPx_values, x_data[i]))],
         n_trials |-> [i \in DOMAIN x_data |-> CountAt(cmpPx_values, x_data[i])]]

\* variant of logistic_threshold_guess: the last level at or above 0.7
logistic_threshold_guess_last(x_data, y_data) ==
    LET x_range == ArrMax(x_data) - ArrMin(x_data)
        x_mid == RAdd(FromInt(ArrMin(x_data)), RMul(FromInt(x_range), Rat(1, 2)))
        crossing == {i \in DOMAIN y_data : ~RLt(y_data[i], Rat(7, 10))}
    IN  IF crossing = {} THEN x_mid ELSE FromInt(x_data[SetMax(crossing)])
\* threshold_guess: x_mid, replaced by x_data[i] at the first perf >= 0.7
logistic_threshold_guess(x_data, y_data) ==
    LET x_range == ArrMax(x_data) - ArrMin(x_data)
        x_mid == RAdd(FromInt(ArrMin(x_data)), RMul(FromInt(x_range), Rat(1, 2)))
        crossing == {i \in DOMAIN y_data : ~RLt(y_data[i], Rat(7, 10))}
    IN  IF crossing = {} THEN x_mid ELSE FromInt(x_data[SetMin(crossing)])

\* the initial guess p0 and the bounds handed to curve_fit (logistic)
logistic_setup(x_data, y_data) ==
    LET x_range == ArrMax(x_data) - ArrMin(x_data)
        threshold_guess == logistic_threshold_guess(x_data, y_data)
        max_perf == RArrMax(y_data)
        min_perf == RArrMin(y_data)
        slope_guess == Rat(4, x_range)
    IN  [p0 |-> <<min_perf, slope_guess, threshold_guess, max_perf>>,
         lower |-> <<Rat(4, 10), Rat(1, 1000), FromInt(ArrMin(x_data)), min_perf>>,
         upper |-> <<Rat(6, 10), Rat(100, x_range), FromInt(ArrMax(x_data)),
                     FromInt(1)>>]

\* what the optimizer can do
NoCall == [nocall |-> TRUE]
Raised(exc) == [raised |-> exc]
Returned(popt) == [popt |-> popt]
IsRaised(outcome) == DOMAIN outcome = {"raised"}
IsReturned(outcome) == DOMAIN outcome = {"popt"}

\* curve_fit(logistic_function, ..., p0=p0, bounds=bounds, maxfev=5000):
\* scipy rejects inconsistent bounds and an infeasible p0 with ValueError;
\* otherwise it raises RuntimeError (no convergence within the evaluation
\* budget) or returns parameters inside the bounds.  The parameters it may
\* return are drawn from the corners of the bounds box and p0 itself.
curve_fit_logistic(p0, lower, upper) ==
    IF \E i \in 1..4 : ~RLt(lower[i], upper[i])
    THEN {Raised("ValueError")}
    ELSE IF \E i \in 1..4 : RLt(p0[i], lower[i]) \/ RLt(upper[i], p0[i])
    THEN {Raised("ValueError")}
    ELSE {Raised("RuntimeError")} \cup {Returned(p0)} \cup
         {Returned(<<a, b, c, d>>) :
             a \in {lower[1], upper[1]}, b \in {lower[2], upper[2]},
             c \in {lower[3], upper[3]}, d \in {lower[4], upper[4]}}

\* curve_fit(cumulative_normal, ..., p0=p0): no bounds; it raises
\* RuntimeError or returns some (mu, sigma).  mu is drawn from the ends of the
\* intensity range, sigma from a small and a large value (norm.cdf is nan for
\* sigma <= 0, so the optimizer never accepts such a step).
curve_fit_normal(x_data) ==
    {Raised("RuntimeError")} \cup
    {Returned(<<mu, sigma>>) :
        mu \in {FromInt(ArrMin(x_data)), FromInt(ArrMax(x_data))},
        sigma \in {Rat(1, 2), FromInt(2)}}

\* np.log(q) for a rational q > 0, in fixed point (1/10000):
\* ln q = 2 * sum_k z^(2k+1)/(2k+1) with z = (q-1)/(q+1); within 0.001 of the
\* logarithm for 1/3 < q < 3, with the sign of the logarithm for every q
RECURSIVE LnSeries(_, _, _)
LnSeries(term, z2, k) ==
    IF k > 24 \/ term = 0 THEN 0
    ELSE term \div (2 * k + 1) + LnSeries((term * z2) \div 10000, z2, k + 1)

np_log(q) ==
    LET za == (Abs(q.n - q.d) * 10000) \div (q.n + q.d)
        z2 == (za * za) \div 10000
        sum == LnSeries(za, z2, 0)
    IN  Rat((IF q.n < q.d THEN -2 ELSE 2) * sum, 10000)

\* variant of range_gate: an extrapolated threshold is kept
range_gate_open(threshold_707, x_data) == threshold_707
\* if threshold_707 < np.min(x_data) or threshold_707 > np.max(x_data):
\*     threshold_707 = np.nan
range_gate(threshold_707, x_data) ==
    IF RLt(threshold_707, FromInt(ArrMin(x_data)))
       \/ RLt(FromInt(ArrMax(x_data)), threshold_707)
    THEN NaN
    ELSE threshold_707

\* the logistic threshold at 70.7% from the fitted parameters
logistic_threshold(popt, x_data) ==
    LET target_performance == Target
        a == popt[1]
        b == popt[2]
        c == popt[3]
        d == popt[4]
    IN  IF RLt(a, target_performance) /\ RLt(target_performance, d)
           /\ RLt(FromInt(0), b)
        THEN LET threshold_707 ==
                     RSub(c, RDiv(np_log(RSub(RDiv(RSub(d, a),
                                                   RSub(target_performance, a)),
                                              FromInt(1))),
                                  b))
             IN  range_gate(threshold_707, x_data)
        ELSE NaN

\* norm.ppf(0.707, mu, sigma) = mu + sigma * 0.5446 for sigma > 0, nan otherwise
norm_ppf_707(mu, sigma) ==
    IF RLt(FromInt(0), sigma)
    THEN RAdd(mu, RMul(sigma, Rat(5446, 10000)))
    ELSE NaN

\* r_squared: 0 when ss_tot is 0, otherwise 1 - ss_res/ss_tot, where ss_res
\* depends on the model's predictions at popt and is kept symbolic
RECURSIVE RSum(_)
RSum(arr) == IF arr = <<>> THEN FromInt(0) ELSE RAdd(Head(arr), RSum(Tail(arr)))

r_squared_of(popt, y_data) ==
    LET mean == RDiv(RSum(y_data), FromInt(Len(y_data)))
        ss_tot == RSum([i \in DOMAIN y_data |->
                          RMul(RSub(y_data[i], mean), RSub(y_data[i], mean))])
    IN  IF RLt(FromInt(0), ss_tot)
        THEN [one_minus_ss_res_of |-> popt, over_ss_tot |-> ss_tot]
        ELSE FromInt(0)

\* return None, None, None, None, None, None, None
SevenNone ==
    [popt |-> None, pcov |-> None, r_squared |-> None, threshold_707 |-> None,
     x_data |-> None, y_data |-> None, n_trials |-> None]

\* variant of fit_on_exception: the exception is not caught
fit_on_exception_reraise(exc) == Raised(exc)
\* except Exception as e: return None, None, None, None, None, None, None
fit_on_exception(exc) == SevenNone

\* variant of fit_stage: three qualifying levels are enough
fit_stage_three_levels(cmpPx_values, correct_responses, method) ==
    LET unique_cmpPx == SortAsc(Unique(cmpPx_values))
        lv == fit_levels(cmpPx_values, correct_responses)
    IN  IF Len(unique_cmpPx) < 4 THEN "too_few_values"
        ELSE IF Len(lv.x_data) < 3 THEN "too_few_levels"
        ELSE IF method = "logistic" THEN "logistic"
        ELSE IF method = "cumulative_normal" THEN "cumulative_normal"
        ELSE "no_branch"

\* how far the call gets before curve_fit: an early return, a model's
\* branch, or neither branch
fit_stage(cmpPx_values, correct_responses, method) ==
    LET unique_cmpPx == SortAsc(Unique(cmpPx_values))
        lv == fit_levels(cmpPx_values, correct_responses)
    IN  IF Len(unique_cmpPx) < 4 THEN "too_few_values"
        ELSE IF Len(lv.x_data) < 4 THEN "too_few_levels"
        ELSE IF method = "logistic" THEN "logistic"
        ELSE IF method = "cumulative_normal" THEN "cumulative_normal"
        ELSE "no_branch"

\* the outcomes curve_fit can have in this call (NoCall when it is not reached)
fit_optimizer_outcomes(cmpPx_values, correct_responses, method) ==
    LET lv == fit_levels(cmpPx_values, correct_responses)
        stage == fit_stage(cmpPx_values, correct_responses, method)
    IN  IF stage = "logistic"
        THEN LET s == logistic_setup(lv.x_data, lv.y_data)
             IN  curve_fit_logistic(s.p0, s.lower, s.upper)
        ELSE IF stage = "cumulative_normal"
        THEN curve_fit_normal(lv.x_data)
        ELSE {NoCall}

\* np.abs of a rational
RAbs(a) == Rat(Abs(a.n), a.d)

\* variant of logistic_weight_factor: extreme proportions lose all weight
logistic_weight_factor_steep(perf) ==
    RSub(FromInt(1), RMul(RAbs(RSub(perf, Rat(1, 2))), FromInt(2)))
\* (1 - np.abs(y_data - 0.5) * 0.5)
logistic_weight_factor(perf) ==
    RSub(FromInt(1), RMul(RAbs(RSub(perf, Rat(1, 2))), Rat(1, 2)))

\* weights = np.sqrt(n_trials) * (1 - np.abs(y_data - 0.5) * 0.5); a weight
\* sqrt(n) * f is kept as the pair of n and f
logistic_weights(y_data, n_trials) ==
    [i \in DOMAIN y_data |->
        [sqrt_of |-> n_trials[i], times |-> logistic_weight_factor(y_data[i])]]

\* the weights behind sigma=1/np.sqrt(n_trials) of the cumulative normal fit
normal_weights(n_trials) ==
    [i \in DOMAIN n_trials |-> [sqrt_of |-> n_trials[i], times |-> FromInt(1)]]

\* the sigma argument of curve_fit in this call, 1/weight per level (None
\* when curve_fit is not reached)
fit_sigma(cmpPx_values, correct_responses, method) ==
    LET lv == fit_levels(cmpPx_values, correct_responses)
        stage == fit_stage(cmpPx_values, correct_responses, method)
    IN  IF stage = "logistic"
        THEN Arr([i \in DOMAIN lv.x_data |->
                    [one_over |-> logistic_weights(lv.y_data, lv.n_trials)[i]]])
        ELSE IF stage = "cumulative_normal"
        THEN Arr([i \in DOMAIN lv.x_data |->
                    [one_over |-> normal_weights(lv.n_trials)[i]]])
        ELSE None

\* fit_psychophysical_curve, given what curve_fit does when it is called
fit_psychophysical_curve(cmpPx_values, correct_responses, method, outcome) ==
    LET lv == fit_levels(cmpPx_values, correct_responses)
        stage == fit_stage(cmpPx_values, correct_responses, method)
    IN  IF stage \in {"too_few_values", "too_few_levels"} THEN SevenNone
        ELSE IF stage = "logistic"
        THEN IF IsRaised(outcome) THEN fit_on_exception(outcome.raised)
             ELSE [popt |-> Arr(outcome.popt),
                   pcov |-> [pcov_of |-> outcome.popt],
                   r_squared |-> r_squared_of(outcome.popt, lv.y_data),
                   threshold_707 |-> logistic_threshold(outcome.popt, lv.x_data),
                   x_data |-> Arr(lv.x_data),
                   y_data |-> Arr(lv.y_data),
                   n_trials |-> Arr(lv.n_trials)]
        ELSE IF stage = "cumulative_normal"
        THEN IF IsRaised(outcome) THEN fit_on_exception(outcome.raised)
             ELSE [popt |-> Arr(outcome.popt),
                   pcov |-> [pcov_of |-> outcome.popt],
                   r_squared |-> r_squared_of(outcome.popt, lv.y_data),
                   threshold_707 |-> norm_ppf_707(outcome.popt[1], outcome.popt[2]),
                   x_data |-> Arr(lv.x_data),
                   y_data |-> Arr(lv.y_data),
                   n_trials |-> Arr(lv.n_trials)]
        ELSE None   \* neither branch returns: the function falls off its end

----------------------------------------------------------------------------
(* analyze_dataset *)

RECURSIVE Concat(_)
Concat(seqs) == IF seqs = <<>> THEN <<>> ELSE Head(seqs) \o Concat(Tail(seqs))

\* all_cmpPx / all_correct: the sessions' columns, extended session by session
all_cmpPx_of(dd) ==
    Concat([s \in DOMAIN dd |-> [i \in DOMAIN dd[s].data |-> dd[s].data[i].cmpPx]])
all_correct_of(dd) ==
    Concat([s \in DOMAIN dd |-> [i \in DOMAIN dd[s].data |-> dd[s].data[i].correct]])

\* np.mean of a boolean array
MeanCorrect(correct) ==
    Rat(Cardinality({i \in DOMAIN correct : correct[i]}), Len(correct))

session_info_of(dd) ==
    [s \in DOMAIN dd |->
        [filename |-> dd[s].filename,
         datetime |-> dd[s].datetime,
         trials |-> Len(dd[s].data),
         accuracy |-> MeanCorrect([i \in DOMAIN dd[s].data |-> dd[s].data[i].correct])]]

\* variant of analyze_success_record: an undetermined threshold stored as 0
analyze_success_record_zero(dataset_name, all_cmpPx, all_correct, simple, fit_result, session_info, method) ==
    [dataset |-> dataset_name,
     n_trials |-> Len(all_cmpPx),
     overall_accuracy |-> MeanCorrect(all_correct),
     stimulus_range |-> <<ArrMin(all_cmpPx), ArrMax(all_cmpPx)>>,
     simple_threshold |-> simple.threshold,
     fit_params |-> fit_result.popt,
     r_squared |-> fit_result.r_squared,
     threshold_707 |-> IF IsNaN(fit_result.threshold_707) THEN FromInt(0)
                       ELSE fit_result.threshold_707,
     x_data |-> fit_result.x_data,
     y_data |-> fit_result.y_data,
     n_trials_per_level |-> fit_result.n_trials,
     session_info |-> session_info,
     method |-> method]

\* the record returned when fit_result[0] is not None
analyze_success_record(dataset_name, all_cmpPx, all_correct, simple, fit_result, session_info, method) ==
    [dataset |-> dataset_name,
     n_trials |-> Len(all_cmpPx),
     overall_accuracy |-> MeanCorrect(all_correct),
     stimulus_range |-> <<ArrMin(all_cmpPx), ArrMax(all_cmpPx)>>,
     simple_threshold |-> simple.threshold,
     fit_params |-> fit_result.popt,
     r_squared |-> fit_result.r_squared,
     threshold_707 |-> fit_result.threshold_707,
     x_data |-> fit_result.x_data,
     y_data |-> fit_result.y_data,
     n_trials_per_level |-> fit_result.n_trials,
     session_info |-> session_info,
     method |-> method]

\* variant of analyze_failure_record: zero-filled fit fields
analyze_failure_record_zero(dataset_name, all_cmpPx, all_correct, simple, session_info, method) ==
    [dataset |-> dataset_name,
     n_trials |-> Len(all_cmpPx),
     overall_accuracy |-> MeanCorrect(all_correct),
     stimulus_range |-> <<ArrMin(all_cmpPx), ArrMax(all_cmpPx)>>,
     simple_threshold |-> simple.threshold,
     fit_params |-> None,
     r_squared |-> FromInt(0),
     threshold_707 |-> FromInt(0),
     x_data |-> simple.x_data,
     y_data |-> simple.y_data,
     n_trials_per_level |-> simple.n_trials,
     session_info |-> session_info,
     method |-> method]

\* variant of analyze_failure_record: n_trials counts the levels kept
analyze_failure_record_levels(dataset_name, all_cmpPx, all_correct, simple, session_info, method) ==
    [dataset |-> dataset_name,
     n_trials |-> Len(simple.x_data.arr),
     overall_accuracy |-> MeanCorrect(all_correct),
     stimulus_range |-> <<ArrMin(all_cmpPx), ArrMax(all_cmpPx)>>,
     simple_threshold |-> simple.threshold,
     fit_params |-> None,
     r_squared |-> None,
     threshold_707 |-> NaN,
     x_data |-> simple.x_data,
     y_data |-> simple.y_data,
     n_trials_per_level |-> simple.n_trials,
     session_info |-> session_info,
     method |-> method]

\* the record returned when the fit failed
analyze_failure_record(dataset_name, all_cmpPx, all_correct, simple, session_info, method) ==
    [dataset |-> dataset_name,
     n_trials |-> Len(all_cmpPx),
     overall_accuracy |-> MeanCorrect(all_correct),
     stimulus_range |-> <<ArrMin(all_cmpPx), ArrMax(all_cmpPx)>>,
     simple_threshold |-> simple.threshold,
     fit_params |-> None,
     r_squared |-> None,
     threshold_707 |-> NaN,
     x_data |-> simple.x_data,
     y_data |-> simple.y_data,
     n_trials_per_level |-> simple.n_trials,
     session_info |-> session_info,
     method |-> method]

(* The objects the analysis works on and what each of its statements writes.
   A session's DataFrame holds one array per column, and df[c].values is that
   array itself, not a copy.  The heap gives the contents of every column
   array and of the object each local name is bound to. *)

Columns == {"cmpPx", "correct"}
LocalNames == {"all_cmpPx", "all_correct", "unique_cmpPx", "mask", "selected",
               "x_data", "y_data", "n_trials"}

\* info['data'][c].values of session s, and the object a local name refers to
Col(s, c) == [col |-> <<s, c>>]
Local(name) == [local |-> name]

\* the heap when analyze_dataset is entered: the session tables by column
heap_of(dd) ==
    [cols |-> [k \in (DOMAIN dd) \X Columns |->
                  [i \in DOMAIN dd[k[1]].data |-> dd[k[1]].data[i][k[2]]]],
     locals |-> [n \in LocalNames |-> <<>>]]

\* the session tables as the heap holds them: dataset_data when the call
\* that worked on the heap returns or raises
tables_of(heap, dd) ==
    [s \in DOMAIN dd |->
        [dd[s] EXCEPT !.data =
            [i \in DOMAIN heap.cols[<<s, "cmpPx">>] |->
                [cmpPx |-> heap.cols[<<s, "cmpPx">>][i],
                 correct |-> heap.cols[<<s, "correct">>][i]]]]]

obj_read(heap, obj) ==
    IF "col" \in DOMAIN obj THEN heap.cols[obj.col] ELSE heap.locals[obj.local]

obj_write(heap, obj, contents) ==
    IF "col" \in DOMAIN obj
    THEN [heap EXCEPT !.cols[obj.col] = contents]
    ELSE [heap EXCEPT !.locals[obj.local] = contents]

\* name = <a new object>: [] , np.array(...), np.unique(...), np.sort(...),
\* a == b and a[mask] all build a new object; only the binding changes
bind(heap, name, contents) == obj_write(heap, Local(name), contents)

\* variant of list_extend: the elements are moved, the argument is left empty
list_extend_draining(heap, receiver, argument) ==
    obj_write(obj_write(heap, receiver,
                        obj_read(heap, receiver) \o obj_read(heap, argument)),
              argument, <<>>)
\* receiver.extend(argument): writes the receiver, reads the argument
list_extend(heap, receiver, argument) ==
    obj_write(heap, receiver, obj_read(heap, receiver) \o obj_read(heap, argument))

\* receiver.append(value): writes the receiver
list_append(heap, receiver, value) ==
    obj_write(heap, receiver, Append(obj_read(heap, receiver), value))

\* the body of the loop over dataset_data.items(), for session s
merge_session(heap, s) ==
    list_extend(list_extend(heap, Local("all_cmpPx"), Col(s, "cmpPx")),
                Local("all_correct"), Col(s, "correct"))

\* the loop over the sessions s..Len(dd)
RECURSIVE merge_sessions(_, _, _)
merge_sessions(heap, dd, s) ==
    IF s > Len(dd) THEN heap
    ELSE merge_sessions(merge_session(heap, s), dd, s + 1)

\* analyze_dataset up to the calls of the estimators: two new lists, the loop,
\* and np.array over each list
merge_heap(dd) ==
    LET h0 == bind(bind(heap_of(dd), "all_cmpPx", <<>>), "all_correct", <<>>)
        h1 == merge_sessions(h0, dd, 1)
    IN  bind(bind(h1, "all_cmpPx", obj_read(h1, Local("all_cmpPx"))),
             "all_correct", obj_read(h1, Local("all_correct")))

\* arr[mask] with a boolean mask: the selected elements, in order
RECURSIVE boolean_index(_, _)
boolean_index(arr, mask) ==
    IF arr = <<>> THEN <<>>
    ELSE (IF Head(mask) THEN <<Head(arr)>> ELSE <<>>)
         \o boolean_index(Tail(arr), Tail(mask))

\* np.sum of a boolean array
CountTrue(arr) == Cardinality({i \in DOMAIN arr : arr[i]})

\* the body of the aggregation loop, for the level cmpPx; cmpPx_values and
\* correct_responses are the objects the caller bound to all_cmpPx, all_correct
aggregate_level(heap, cmpPx) ==
    LET cmpPx_values == obj_read(heap, Local("all_cmpPx"))
        h1 == bind(heap, "mask", [i \in DOMAIN cmpPx_values |-> cmpPx_values[i] = cmpPx])
        trials_at_level == CountTrue(obj_read(h1, Local("mask")))
        h2 == bind(h1, "selected",
                   boolean_index(obj_read(h1, Local("all_correct")),
                                 obj_read(h1, Local("mask"))))
        correct_at_level == CountTrue(obj_read(h2, Local("selected")))
    IN  IF trials_at_level >= 2
        THEN list_append(list_append(list_append(h2, Local("x_data"), cmpPx),
                                     Local("y_data"),
                                     Rat(correct_at_level, trials_at_level)),
                         Local("n_trials"), trials_at_level)
        ELSE h1

\* the aggregation loop from the k-th unique intensity on
RECURSIVE aggregate_levels(_, _)
aggregate_levels(heap, k) ==
    IF k > Len(obj_read(heap, Local("unique_cmpPx"))) THEN heap
    ELSE aggregate_levels(aggregate_level(heap, obj_read(heap, Local("unique_cmpPx"))[k]),
                          k + 1)

\* the statements of an estimator that read its two arguments: np.unique and
\* np.sort, the early return of fit_psychophysical_curve below min_unique
\* unique intensities, three new lists and the aggregation loop
estimator_heap(heap, min_unique) ==
    LET h1 == bind(heap, "unique_cmpPx",
                   SortAsc(Unique(obj_read(heap, Local("all_cmpPx")))))
    IN  IF Len(obj_read(h1, Local("unique_cmpPx"))) < min_unique THEN h1
        ELSE aggregate_levels(bind(bind(bind(h1, "x_data", <<>>), "y_data", <<>>),
                                   "n_trials", <<>>), 1)

\* the heap when analyze_dataset returns or raises: every raise follows the
\* aggregation loops of both estimators
analyze_heap(dd) == estimator_heap(estimator_heap(merge_heap(dd), 0), 4)

\* a direct call of an estimator on the merged columns of dd
estimator_call_heap(dd, min_unique) ==
    estimator_heap(bind(bind(heap_of(dd), "all_cmpPx", all_cmpPx_of(dd)),
                        "all_correct", all_correct_of(dd)), min_unique)

\* the two arrays an estimator was given, as the heap holds them
inputs_in(heap) ==
    [cmpPx |-> obj_read(heap, Local("all_cmpPx")),
     correct |-> obj_read(heap, Local("all_correct"))]

\* analyze_dataset, given what curve_fit does when it is called: the result
\* record it returns, or the exception it raises
analyze_dataset(dataset_name, dd, method, outcome) ==
    LET all_cmpPx == all_cmpPx_of(dd)
        all_correct == all_correct_of(dd)
        session_info == session_info_of(dd)
    IN  IF all_cmpPx = <<>> THEN Raised("ValueError")   \* np.min of an empty array
        ELSE
        LET simple == simple_threshold_estimate(all_cmpPx, all_correct, Target)
            fit_result == fit_psychophysical_curve(all_cmpPx, all_correct, method, outcome)
        IN  IF IsRaised(fit_result) THEN fit_result     \* an exception passes through
            ELSE IF fit_result = None THEN Raised("TypeError")   \* fit_result[0]
            ELSE IF fit_result.popt /= None
            THEN analyze_success_record(dataset_name, all_cmpPx, all_correct, simple,
                                        fit_result, session_info, method)
            ELSE analyze_failure_record(dataset_name, all_cmpPx, all_correct, simple,
                                        session_info, method)

----------------------------------------------------------------------------
(* Inputs: the trial tables a dataset can hold *)

\* per intensity: <<number of trials, number of correct trials>>
Cells == {<<c, k>> \in (0..MaxPerLevel) \X (0..MaxPerLevel) : k <= c}

RECURSIVE TotalTrials(_, _)
TotalTrials(t, S) ==
    IF S = {} THEN 0
    ELSE LET x == SetMin(S) IN t[x][1] + TotalTrials(t, S \ {x})

Tables ==
    {t \in [Intensities -> Cells] : TotalTrials(t, Intensities) \in 1..MaxTrials}

\* the rows of a table as a trial list, in passes: pass j holds the j-th trial
\* of every intensity that has one, intensities descending; the first trials
\* at an intensity are the correct ones.  The list is unsorted and the trials
\* of one intensity are not adjacent.
RECURSIVE PassOf(_, _, _)
PassOf(t, S, j) ==
    IF S = {} THEN <<>>
    ELSE LET x == SetMax(S)
         IN  (IF t[x][1] >= j THEN <<[cmpPx |-> x, correct |-> j <= t[x][2]]>>
              ELSE <<>>)
             \o PassOf(t, S \ {x}, j)

RECURSIVE TrialsFrom(_, _)
TrialsFrom(t, j) ==
    IF j > MaxPerLevel THEN <<>>
    ELSE PassOf(t, Intensities, j) \o TrialsFrom(t, j + 1)

TrialsOf(t) == TrialsFrom(t, 1)

\* a loaded dataset: its trials in one session file, or split over two
SessionsOf(trials) ==
    LET h == (Len(trials) + 1) \div 2
    IN  IF Len(trials) < 2
        THEN <<[filename |-> "2AFC_P_20251019_221500.csv", datetime |-> 1,
                data |-> trials]>>
        ELSE <<[filename |-> "2AFC_P_20251020_003915.csv", datetime |-> 2,
                data |-> SubSeq(trials, 1, h)],
               [filename |-> "2AFC_P_20251019_221500.csv", datetime |-> 1,
                data |-> SubSeq(trials, h + 1, Len(trials))]>>

DatasetOf(t) == SessionsOf(TrialsOf(t))

Methods == {"logistic", "cumulative_normal", "probit"}

----------------------------------------------------------------------------
(* Calls of the three functions on one dataset *)

\* the directory of the scripts, as path components
ScriptDir == <<"VR2AFC", "Assets", "PythonScripts">>

\* load_and_process_data() is not running
LoaderIdle ==
    /\ cwd = ScriptDir
    /\ original_dir = <<>>

MainIdle ==
    /\ LoaderIdle
    /\ pc = "idle"
    /\ all_data = <<>>
    /\ next_dataset = 1
    /\ results = <<>>
    /\ threshold_summary = <<>>
    /\ analysed = <<>>

Init ==
    /\ dataset_data \in {DatasetOf(t) : t \in Tables}
    /\ call = [fn |-> "none"]
    /\ optimizer_calls = 0
    /\ MainIdle

CallSimple ==
    /\ call.fn = "none"
    /\ pc = "idle"
    /\ call' = [fn |-> "simple_threshold_estimate",
                inputs_after |-> inputs_in(estimator_call_heap(dataset_data, 0)),
                ret |-> simple_threshold_estimate(all_cmpPx_of(dataset_data),
                                                  all_correct_of(dataset_data),
                                                  Target)]
    /\ UNCHANGED <<cwd, original_dir, dataset_data, optimizer_calls, pc, all_data,
                   next_dataset,
                   results, threshold_summary, analysed>>

CallFit ==
    /\ call.fn = "none"
    /\ pc = "idle"
    /\ \E after \in {inputs_in(estimator_call_heap(dataset_data, 4))} :
       \E method \in Methods :
         \E outcome \in fit_optimizer_outcomes(all_cmpPx_of(dataset_data),
                                               all_correct_of(dataset_data), method) :
            /\ call' = [fn |-> "fit_psychophysical_curve",
                        method |-> method,
                        outcome |-> outcome,
                        sigma |-> fit_sigma(all_cmpPx_of(dataset_data),
                                            all_correct_of(dataset_data), method),
                        inputs_after |-> after,
                        ret |-> fit_psychophysical_curve(
                                    all_cmpPx_of(dataset_data),
                                    all_correct_of(dataset_data), method, outcome)]
            /\ optimizer_calls' = optimizer_calls + (IF outcome = NoCall THEN 0 ELSE 1)
    /\ UNCHANGED <<cwd, original_dir, dataset_data, pc, all_data, next_dataset,
                   results,
                   threshold_summary, analysed>>

CallAnalyze ==
    /\ call.fn = "none"
    /\ pc = "idle"
    /\ \E heap \in {analyze_heap(dataset_data)} :
       /\ dataset_data' = tables_of(heap, dataset_data)
       /\ \E method \in Methods :
         \E outcome \in fit_optimizer_outcomes(all_cmpPx_of(dataset_data),
                                               all_correct_of(dataset_data), method) :
            /\ call' = [fn |-> "analyze_dataset",
                        method |-> method,
                        outcome |-> outcome,
                        inputs_after |-> inputs_in(heap),
                        ret |-> analyze_dataset("bricks004", dataset_data, method, outcome)]
            /\ optimizer_calls' = optimizer_calls + (IF outcome = NoCall THEN 0 ELSE 1)
    /\ UNCHANGED <<cwd, original_dir, pc, all_data, next_dataset, results,
                   threshold_summary, analysed>>

\* a second analysis of the session tables the first one left behind, with
\* the same method; curve_fit is a deterministic routine, so it is taken to
\* do on equal arguments what it did in the first call
CallAnalyzeAgain ==
    /\ call.fn = "analyze_dataset"
    /\ pc = "idle"
    /\ call.outcome \in fit_optimizer_outcomes(all_cmpPx_of(dataset_data),
                                               all_correct_of(dataset_data),
                                               call.method)
    /\ \E heap \in {analyze_heap(dataset_data)} :
       /\ dataset_data' = tables_of(heap, dataset_data)
       /\ call' = [fn |-> "analyze_dataset_again",
                   method |-> call.method,
                   outcome |-> call.outcome,
                   first |-> call.ret,
                   inputs_after |-> inputs_in(heap),
                   ret |-> analyze_dataset("bricks004", dataset_data, call.method,
                                           call.outcome)]
    /\ optimizer_calls' = optimizer_calls + (IF call.outcome = NoCall THEN 0 ELSE 1)
    /\ UNCHANGED <<cwd, original_dir, pc, all_data, next_dataset, results,
                   threshold_summary, analysed>>

Next == CallSimple \/ CallFit \/ CallAnalyze \/ CallAnalyzeAgain

Spec == Init /\ [][Next]_vars

----------------------------------------------------------------------------
(* main *)

DATASETS == <<"bricks004", "bricks101", "rock062">>

\* The datasets a run of main loads, by shape:
\*   singles       one trial at every intensity, so no level qualifies
\*   three_levels  three intensities with two trials each
\*   rising        four intensities with two trials each, accuracy rising from 0.5
\*   floor         four intensities with two trials each, accuracy rising from 0
MainShapes == {"singles", "three_levels", "rising", "floor"}

ShapeTable(shape) ==
    [x \in Intensities |->
        IF shape = "singles" THEN <<1, 1>>
        ELSE IF x > 2 THEN <<0, 0>>
        ELSE IF shape = "three_levels"
             THEN (IF x = 2 THEN <<0, 0>> ELSE IF x = 1 THEN <<2, 2>> ELSE <<2, 1>>)
        ELSE IF shape = "rising"
             THEN (IF x >= 1 THEN <<2, 2>> ELSE <<2, 1>>)
        ELSE (IF x >= 1 THEN <<2, 2>> ELSE IF x = 0 THEN <<2, 1>> ELSE <<2, 0>>)]

RECURSIVE LoadedFrom(_, _)
\* load_and_process_data: the datasets found, in DATASETS order
LoadedFrom(pick, i) ==
    IF i > Len(DATASETS) THEN <<>>
    ELSE (IF pick[i] = "absent" THEN <<>>
          ELSE <<[name |-> DATASETS[i], data |-> DatasetOf(ShapeTable(pick[i]))]>>)
         \o LoadedFrom(pick, i + 1)

\* plot_psychophysical_curves up to the point sizes: np.min(n_trials) raises
\* on an empty array
plot_psychophysical_curves(rs) ==
    IF \E i \in DOMAIN rs : rs[i].n_trials_per_level.arr = <<>>
    THEN Raised("ValueError")
    ELSE None

\* the row main appends to threshold_summary
summary_row(dataset_name, result) ==
    [dataset |-> dataset_name,
     simple_threshold |-> result.simple_threshold,
     fitted_threshold |-> IF ~IsNaN(result.threshold_707)
                          THEN result.threshold_707 ELSE None,
     r_squared |-> result.r_squared,
     n_trials |-> result.n_trials]

InitMain ==
    /\ dataset_data = <<>>
    /\ call = [fn |-> "none"]
    /\ optimizer_calls = 0
    /\ pc = "start"
    /\ LoaderIdle
    /\ \E pick \in [1..Len(DATASETS) -> MainShapes \cup {"absent"}] :
          all_data = LoadedFrom(pick, 1)
    /\ next_dataset = 1
    /\ results = <<>>
    /\ threshold_summary = <<>>
    /\ analysed = <<>>

\* all_data = load_and_process_data(DATASETS); if not all_data: return
MainLoad ==
    /\ pc = "start"
    /\ pc' = IF all_data = <<>> THEN "no_data" ELSE "analyze"
    /\ UNCHANGED <<cwd, original_dir, dataset_data, call, optimizer_calls, all_data,
                   next_dataset,
                   results, threshold_summary, analysed>>

\* one iteration of: for dataset_name, dataset_data in all_data.items()
MainAnalyze ==
    /\ pc = "analyze"
    /\ next_dataset <= Len(all_data)
    /\ LET ds == all_data[next_dataset]
       IN  \E outcome \in fit_optimizer_outcomes(all_cmpPx_of(ds.data),
                                                 all_correct_of(ds.data), "logistic") :
             LET result == analyze_dataset(ds.name, ds.data, "logistic", outcome)
             IN  /\ optimizer_calls' = optimizer_calls + (IF outcome = NoCall THEN 0 ELSE 1)
                 /\ analysed' = Append(analysed, ds.name)
                 /\ IF IsRaised(result)
                    THEN /\ pc' = "crashed"
                         /\ UNCHANGED <<results, threshold_summary, next_dataset>>
                    ELSE /\ results' = Append(results, result)
                         /\ threshold_summary' =
                              Append(threshold_summary, summary_row(ds.name, result))
                         /\ next_dataset' = next_dataset + 1
                         /\ pc' = pc
    /\ UNCHANGED <<cwd, original_dir, dataset_data, call, all_data>>

\* plot_psychophysical_curves(results)
MainPlot ==
    /\ pc = "analyze"
    /\ next_dataset > Len(all_data)
    /\ pc' = IF IsRaised(plot_psychophysical_curves(results))
             THEN "crashed" ELSE "summary"
    /\ UNCHANGED <<cwd, original_dir, dataset_data, call, optimizer_calls, all_data,
                   next_dataset,
                   results, threshold_summary, analysed>>

\* the summary table is printed
MainSummary ==
    /\ pc = "summary"
    /\ pc' = "done"
    /\ UNCHANGED <<cwd, original_dir, dataset_data, call, optimizer_calls, all_data,
                   next_dataset,
                   results, threshold_summary, analysed>>

NextMain == MainLoad \/ MainAnalyze \/ MainPlot \/ MainSummary

SpecMain == InitMain /\ [][NextMain]_vars

----------------------------------------------------------------------------
(* The interpolation and the logistic initial guess on given levels: five
   levels at intensities 400..600 *)

LevelIntensities == <<400, 450, 500, 550, 600>>
LevelProportions == {Rat(1, 2), Rat(3, 5), Rat(3, 4), Rat(9, 10), Rat(19, 20)}

\* x_data, y_data and n_trials as they stand after the aggregation loop, for
\* 20 trials at every level of which 10, 12, 15, 18 or 19 are correct (20 is
\* the least count that yields every proportion of LevelProportions)
LevelSets ==
    {[x_data |-> LevelIntensities,
      y_data |-> y,
      n_trials |-> [i \in DOMAIN LevelIntensities |-> 20]] :
        y \in [DOMAIN LevelIntensities -> LevelProportions]}

InitLevels ==
    /\ dataset_data = <<>>
    /\ call \in {[fn |-> "levels", levels |-> lv] : lv \in LevelSets}
    /\ optimizer_calls = 0
    /\ MainIdle

\* the part of simple_threshold_estimate that follows the aggregation
Interpolate ==
    /\ call.fn = "levels"
    /\ call' = [fn |-> "interpolation",
                levels |-> call.levels,
                ret |-> IF simple_too_few_levels(Len(call.levels.x_data))
                        THEN NaN
                        ELSE simple_threshold(call.levels.x_data,
                                              call.levels.y_data, Target)]
    /\ UNCHANGED <<cwd, original_dir, dataset_data, optimizer_calls, pc, all_data,
                   next_dataset,
                   results, threshold_summary, analysed>>

\* the logistic branch of fit_psychophysical_curve from the aggregated levels
\* to the arguments it hands to curve_fit: initial guess p0 and the bounds
LogisticGuess ==
    /\ call.fn = "levels"
    /\ Len(call.levels.x_data) >= 4
    /\ call' = [fn |-> "logistic_guess",
                levels |-> call.levels,
                ret |-> logistic_setup(call.levels.x_data, call.levels.y_data)]
    /\ UNCHANGED <<cwd, original_dir, dataset_data, optimizer_calls, pc, all_data,
                   next_dataset,
                   results, threshold_summary, analysed>>

NextLevels == Interpolate \/ LogisticGuess

SpecLevels == InitLevels /\ [][NextLevels]_vars

----------------------------------------------------------------------------
(* load_and_process_data (psychophysical_analysis.py and plot.py) *)

\* DATASETS[dataset_name], a path relative to the current directory
DatasetPath(dataset_name) ==
    CASE dataset_name = "bricks004" -> "Bricks004_results"
      [] dataset_name = "bricks101" -> "Bricks101_results"
      [] OTHER -> "Rock062_results"

\* the two scripts that define load_and_process_data
Loaders == {"psychophysical_analysis", "plot"}

\* A file of a dataset directory: whether its name starts with '2AFC_P_',
\* the number of '_'-separated parts of its name, whether the date and time
\* parts are digits of a valid date, the moment they denote, and what
\* pd.read_csv finds in it.
SessionFile(name, prefixed, parts, numeric, stamp, content) ==
    [name |-> name, prefixed |-> prefixed, parts |-> parts, numeric |-> numeric,
     stamp |-> stamp, content |-> content]

OlderFile == SessionFile("2AFC_P_20251019_221500.csv", TRUE, 4, TRUE, 1, "trials")
NewerFile == SessionFile("2AFC_P_20251020_003915.csv", TRUE, 4, TRUE, 2, "trials")
MalformedFile == SessionFile("2AFC_P_20251021_101010.csv", TRUE, 4, TRUE, 3, "malformed")
NoCorrectFile == SessionFile("2AFC_P_20251022_090000.csv", TRUE, 4, TRUE, 4, "no_correct_column")
NoRowsFile == SessionFile("2AFC_P_20251023_090000.csv", TRUE, 4, TRUE, 5, "no_rows")
BadStampFile == SessionFile("2AFC_P_2025102x_003915.csv", TRUE, 4, FALSE, 0, "trials")
ShortNameFile == SessionFile("2AFC_P_notes.csv", TRUE, 3, FALSE, 0, "trials")
OtherCsvFile == SessionFile("summary.csv", FALSE, 1, FALSE, 0, "trials")

\* what a dataset path can be: absent, present but not a directory that
\* os.chdir can enter, a directory that can be entered but not listed, or a
\* directory with files (in the order glob returns them)
DatasetDirs ==
    {[kind |-> "missing"], [kind |-> "not_a_directory"], [kind |-> "unlistable"]}
    \cup {[kind |-> "directory", files |-> fs] :
            fs \in {<<>>, <<OlderFile>>, <<OlderFile, NewerFile>>,
                    <<MalformedFile, OlderFile>>, <<NoCorrectFile>>,
                    <<NoRowsFile, OtherCsvFile>>, <<BadStampFile, OlderFile>>,
                    <<ShortNameFile, NewerFile>>}}

\* what lies at an absolute path, given the dataset directories under root
path_lookup(fs, root, path) ==
    IF \E i \in DOMAIN DATASETS : path = Append(root, DatasetPath(DATASETS[i]))
    THEN fs[CHOOSE i \in DOMAIN DATASETS : path = Append(root, DatasetPath(DATASETS[i]))]
    ELSE [kind |-> "missing"]

\* the absolute path a relative path names in the current directory
resolve(current_dir, relative_path) == Append(current_dir, relative_path)

\* parse_filename_datetime(filename): a datetime, None for a name with fewer
\* than 4 parts, ValueError from int() or datetime() otherwise
parse_filename_datetime(file) ==
    IF file.parts >= 4
    THEN IF file.numeric THEN [datetime |-> file.stamp] ELSE Raised("ValueError")
    ELSE None

\* the loop that fills file_info: an exception of parse_filename_datetime
\* leaves the loop, a None skips the file
RECURSIVE collect_file_info(_)
collect_file_info(csv_files) ==
    IF csv_files = <<>> THEN [exc |-> None, file_info |-> <<>>]
    ELSE LET file_datetime == parse_filename_datetime(Head(csv_files))
         IN  IF IsRaised(file_datetime) THEN [exc |-> file_datetime, file_info |-> <<>>]
             ELSE LET rest == collect_file_info(Tail(csv_files))
                  IN  [exc |-> rest.exc,
                       file_info |->
                           (IF file_datetime = None THEN <<>>
                            ELSE <<[file |-> Head(csv_files),
                                    datetime |-> file_datetime.datetime]>>)
                           \o rest.file_info]

\* file_info.sort(key=lambda x: x[1], reverse=True): newest first, equal
\* keys in their original order
RECURSIVE sort_newest_first(_)
sort_newest_first(file_info) ==
    IF file_info = <<>> THEN <<>>
    ELSE LET k == CHOOSE i \in DOMAIN file_info :
                    /\ \A j \in DOMAIN file_info :
                          file_info[j].datetime <= file_info[i].datetime
                    /\ \A j \in 1..(i - 1) :
                          file_info[j].datetime < file_info[i].datetime
         IN  <<file_info[k]>>
             \o sort_newest_first(SubSeq(file_info, 1, k - 1)
                                  \o SubSeq(file_info, k + 1, Len(file_info)))

\* if num_recent and num_recent > 0: file_info = file_info[:num_recent]
\* (num_recent = 0 stands for None as well)
take_recent(file_info, num_recent) ==
    IF num_recent > 0 /\ num_recent < Len(file_info)
    THEN SubSeq(file_info, 1, num_recent)
    ELSE file_info

\* the inner try: whether the file ends up in dataset_data.  Reading a
\* malformed file raises and is caught; df['correct'].astype(bool) raises
\* KeyError without that column, in psychophysical_analysis.py only; a file
\* without rows is not stored.
session_is_stored(file, loader) ==
    \/ file.content = "trials"
    \/ file.content = "no_correct_column" /\ loader = "plot"

\* glob.glob("*.csv") in the directory entered: glob swallows the OSError of
\* a directory it cannot list and returns no file
glob_csv(dir) == IF dir.kind = "unlistable" THEN <<>> ELSE dir.files

\* the body of the outer try for one dataset directory: the exception that
\* leaves it (None when it completes) and the dataset_data it built
load_dataset_body(dir, dataset_name, num_recent, loader) ==
    LET csv_files == SelectSeq(glob_csv(dir), LAMBDA f : f.prefixed)
        collected == collect_file_info(csv_files)
        file_info == take_recent(sort_newest_first(collected.file_info),
                                 num_recent)
        stored == SelectSeq(file_info,
                            LAMBDA e : session_is_stored(e.file, loader))
    IN  IF IsRaised(collected.exc)
        THEN [exc |-> collected.exc, dataset_data |-> <<>>]
        ELSE [exc |-> None,
              dataset_data |->
                  [i \in DOMAIN stored |->
                      [filename |-> stored[i].file.name,
                       datetime |-> stored[i].datetime,
                       dataset |-> dataset_name]]]

\* variant of dir_after_finally: the directory is restored only when the
\* body completed
dir_after_finally_on_success(current_dir, saved_dir, pending) ==
    IF pending = None THEN saved_dir ELSE current_dir
\* finally: os.chdir(original_dir)
dir_after_finally(current_dir, saved_dir, pending) == saved_dir

\* the directories the function can be called from
StartDirs == {ScriptDir, <<"VR2AFC">>}

InitLoad ==
    /\ cwd \in StartDirs
    /\ original_dir = <<>>
    /\ \E loader \in Loaders, num_recent \in {0, 1} :
          \E fs \in [DOMAIN DATASETS -> DatasetDirs] :
             call = [fn |-> "load_and_process_data",
                     loader |-> loader,
                     num_recent |-> num_recent,
                     fs |-> fs,
                     called_from |-> cwd,
                     pending |-> None]
    /\ pc = "load_loop"
    /\ all_data = <<>>
    /\ next_dataset = 1
    /\ dataset_data = <<>>
    /\ optimizer_calls = 0
    /\ results = <<>>
    /\ threshold_summary = <<>>
    /\ analysed = <<>>

\* if not os.path.exists(dataset_path): continue
LoadSkipMissing ==
    /\ pc = "load_loop"
    /\ next_dataset <= Len(DATASETS)
    /\ LET dataset_path == DatasetPath(DATASETS[next_dataset])
       IN  path_lookup(call.fs, call.called_from,
                       resolve(cwd, dataset_path)).kind = "missing"
    /\ next_dataset' = next_dataset + 1
    /\ UNCHANGED <<cwd, original_dir, dataset_data, call, optimizer_calls, pc,
                   all_data, results, threshold_summary, analysed>>

\* original_dir = os.getcwd(); os.chdir(dataset_path), which raises when the
\* path is not a directory and then leaves the current directory as it was
LoadEnter ==
    /\ pc = "load_loop"
    /\ next_dataset <= Len(DATASETS)
    /\ LET dataset_path == DatasetPath(DATASETS[next_dataset])
           at == path_lookup(call.fs, call.called_from, resolve(cwd, dataset_path))
       IN  /\ at.kind /= "missing"
           /\ original_dir' = cwd
           /\ IF at.kind = "not_a_directory"
              THEN /\ call' = [call EXCEPT !.pending = Raised("NotADirectoryError")]
                   /\ pc' = "load_raised"
                   /\ cwd' = cwd
              ELSE /\ cwd' = resolve(cwd, dataset_path)
                   /\ pc' = "load_try"
                   /\ call' = call
    /\ UNCHANGED <<dataset_data, optimizer_calls, all_data, next_dataset, results,
                   threshold_summary, analysed>>

\* the body of the outer try, in the directory entered
LoadBody ==
    /\ pc = "load_try"
    /\ LET body == load_dataset_body(path_lookup(call.fs, call.called_from, cwd),
                                     DATASETS[next_dataset], call.num_recent,
                                     call.loader)
       IN  /\ call' = [call EXCEPT !.pending = body.exc]
           /\ all_data' = IF body.exc = None /\ body.dataset_data /= <<>>
                          THEN Append(all_data, [name |-> DATASETS[next_dataset],
                                                 data |-> body.dataset_data])
                          ELSE all_data
    /\ pc' = "load_finally"
    /\ UNCHANGED <<cwd, original_dir, dataset_data, optimizer_calls, next_dataset,
                   results, threshold_summary, analysed>>

\* finally: os.chdir(original_dir); then the next dataset, or the pending
\* exception leaves the function
LoadFinally ==
    /\ pc = "load_finally"
    /\ cwd' = dir_after_finally(cwd, original_dir, call.pending)
    /\ IF call.pending = None
       THEN /\ pc' = "load_loop"
            /\ next_dataset' = next_dataset + 1
       ELSE /\ pc' = "load_raised"
            /\ next_dataset' = next_dataset
    /\ UNCHANGED <<original_dir, dataset_data, call, optimizer_calls, all_data,
                   results, threshold_summary, analysed>>

\* return all_data
LoadReturn ==
    /\ pc = "load_loop"
    /\ next_dataset > Len(DATASETS)
    /\ pc' = "load_returned"
    /\ UNCHANGED <<cwd, original_dir, dataset_data, call, optimizer_calls,
                   all_data, next_dataset, results, threshold_summary, analysed>>

NextLoad == LoadSkipMissing \/ LoadEnter \/ LoadBody \/ LoadFinally \/ LoadReturn

SpecLoad == InitLoad /\ [][NextLoad]_vars

----------------------------------------------------------------------------
(* The claims, settled under Spec (calls on one dataset), SpecLevels, SpecLoad  *)
(* and SpecMain                                                            *)

\* the merged trial columns of the dataset under analysis
InCmpPx == all_cmpPx_of(dataset_data)
InCorrect == all_correct_of(dataset_data)

\* the intensities with at least two trials, counted over the sessions
TrialsAt(x) ==
    Cardinality({<<s, i>> \in (DOMAIN dataset_data) \X (1..MaxTrials) :
                    /\ i \in DOMAIN dataset_data[s].data
                    /\ dataset_data[s].data[i].cmpPx = x})
DistinctIntensities == {x \in Intensities : TrialsAt(x) >= 1}
QualifyingIntensities == {x \in Intensities : TrialsAt(x) >= 2}

SimpleReturned == call.fn = "simple_threshold_estimate"
FitReturned == call.fn = "fit_psychophysical_curve"
AnalyzeReturned == call.fn = "analyze_dataset" /\ ~IsRaised(call.ret)

AtOrAbove(y) == {i \in DOMAIN y : ~RLt(y[i], Target)}
Below(y) == {i \in DOMAIN y : RLt(y[i], Target)}

\* C1: with at least 3 levels, one below target and one at or above it, the
\* threshold of simple_threshold_estimate lies between the intensity of the
\* first level at or above target and that of its predecessor (inclusive),
\* and equals the former when it has no predecessor.
C1_ThresholdBracketed ==
    SimpleReturned =>
        LET x == call.ret.x_data.arr
            y == call.ret.y_data.arr
            t == call.ret.threshold
        IN  (Len(x) >= 3 /\ Below(y) /= {} /\ AtOrAbove(y) /= {}) =>
                LET k == SetMin(AtOrAbove(y))
                IN  /\ IsNum(t)
                    /\ k = 1 => t = FromInt(x[1])
                    /\ k > 1 => /\ RLe(FromInt(x[k - 1]), t)
                                /\ RLe(t, FromInt(x[k]))

C1_Witness ==
    /\ SimpleReturned
    /\ Len(call.ret.x_data.arr) >= 3
    /\ Below(call.ret.y_data.arr) /= {}
    /\ AtOrAbove(call.ret.y_data.arr) /= {}
    /\ 1 \notin AtOrAbove(call.ret.y_data.arr)
    /\ RLt(call.ret.threshold,
           FromInt(call.ret.x_data.arr[SetMin(AtOrAbove(call.ret.y_data.arr))]))

\* C2: with at least 3 levels all at or above target the threshold is strictly
\* below the minimum intensity, and with all levels below target it is
\* strictly above the maximum intensity, for every intensity value.
C2_ExtrapolatesOutsideRange ==
    SimpleReturned =>
        LET x == call.ret.x_data.arr
            y == call.ret.y_data.arr
            t == call.ret.threshold
        IN  Len(x) >= 3 =>
                /\ Below(y) = {} => RLt(t, FromInt(ArrMin(x)))
                /\ AtOrAbove(y) = {} => RLt(FromInt(ArrMax(x)), t)

StrictlyAscending(x) == \A i \in DOMAIN x : \A j \in DOMAIN x : i < j => x[i] < x[j]

LevelsWellFormed(x, n) ==
    /\ StrictlyAscending(x)
    /\ DOMAIN n = DOMAIN x
    /\ \A i \in DOMAIN n : n[i] >= 2

\* C3: the levels aggregated by simple_threshold_estimate and by
\* fit_psychophysical_curve are strictly ascending by intensity and every
\* emitted level has at least 2 trials.
C3_LevelsAscendingAndPopulated ==
    /\ SimpleReturned =>
          LevelsWellFormed(call.ret.x_data.arr, call.ret.n_trials.arr)
    /\ FitReturned =>
          /\ LevelsWellFormed(fit_levels(InCmpPx, InCorrect).x_data,
                              fit_levels(InCmpPx, InCorrect).n_trials)
          /\ (call.ret /= None /\ call.ret.popt /= None) =>
                LevelsWellFormed(call.ret.x_data.arr, call.ret.n_trials.arr)

C3_Witness ==
    /\ SimpleReturned
    /\ Len(call.ret.x_data.arr) >= 2
    /\ DistinctIntensities /= QualifyingIntensities
    /\ InCmpPx[1] > InCmpPx[Len(InCmpPx)]

\* C4: with fewer than 4 qualifying levels fit_psychophysical_curve returns
\* seven None fields and curve_fit is never called, whether fewer than 4
\* distinct intensities exist or 4 or more exist and fewer than 4 qualify.
C4_InsufficientDataSkipsOptimizer ==
    (FitReturned /\ Cardinality(QualifyingIntensities) < 4) =>
        /\ call.ret = SevenNone
        /\ call.outcome = NoCall
        /\ optimizer_calls = 0

C4_Witness ==
    /\ FitReturned
    /\ Cardinality(DistinctIntensities) >= 4
    /\ Cardinality(QualifyingIntensities) = 3
    /\ call.ret = SevenNone

\* C5: in a logistic fit that succeeded, a threshold that is not NaN comes
\* with a < 0.707 < d, b > 0 and lies within [min intensity, max intensity];
\* otherwise the threshold is NaN, and popt and r_squared are returned.
C5_LogisticThresholdGated ==
    (FitReturned /\ call.method = "logistic" /\ IsReturned(call.outcome)) =>
        LET popt == call.outcome.popt
            t == call.ret.threshold_707
            x == call.ret.x_data.arr
        IN  /\ call.ret.popt = Arr(popt)
            /\ call.ret.r_squared /= None
            /\ IsNum(t) \/ IsNaN(t)
            /\ IsNum(t) =>
                  /\ RLt(popt[1], Target) /\ RLt(Target, popt[4])
                  /\ RLt(FromInt(0), popt[2])
                  /\ RLe(FromInt(ArrMin(x)), t)
                  /\ RLe(t, FromInt(ArrMax(x)))

C5_Witness ==
    /\ FitReturned
    /\ call.method = "logistic"
    /\ IsReturned(call.outcome)
    /\ IsNum(call.ret.threshold_707)

C5_WitnessUndetermined ==
    /\ FitReturned
    /\ call.method = "logistic"
    /\ IsReturned(call.outcome)
    /\ RLt(call.outcome.popt[1], Target) /\ RLt(Target, call.outcome.popt[4])
    /\ IsNaN(call.ret.threshold_707)

\* C6: when the fit fails, analyze_dataset returns a record with the
\* interpolated threshold, n_trials, overall_accuracy, stimulus_range and
\* session_info of the merged trials, fit_params and r_squared None and
\* threshold_707 NaN.
C6_FailureRecordComplete ==
    (AnalyzeReturned /\ ~IsReturned(call.outcome)) =>
        LET r == call.ret
        IN  /\ r.simple_threshold =
                  simple_threshold_estimate(InCmpPx, InCorrect, Target).threshold
            /\ r.n_trials = Len(InCmpPx)
            /\ r.overall_accuracy = MeanCorrect(InCorrect)
            /\ r.stimulus_range = <<ArrMin(InCmpPx), ArrMax(InCmpPx)>>
            /\ r.session_info = session_info_of(dataset_data)
            /\ r.fit_params = None
            /\ r.r_squared = None
            /\ r.threshold_707 = NaN
            \* the same descriptive fields as when the fit succeeds
            /\ \A o \in fit_optimizer_outcomes(InCmpPx, InCorrect, call.method) :
                  LET q == analyze_dataset(r.dataset, dataset_data, call.method, o)
                  IN  /\ q.simple_threshold = r.simple_threshold
                      /\ q.n_trials = r.n_trials
                      /\ q.overall_accuracy = r.overall_accuracy
                      /\ q.stimulus_range = r.stimulus_range
                      /\ q.session_info = r.session_info

C6_Witness ==
    /\ AnalyzeReturned
    /\ IsRaised(call.outcome)
    /\ IsNum(call.ret.simple_threshold)
    /\ call.ret.fit_params = None
    /\ \E o \in fit_optimizer_outcomes(InCmpPx, InCorrect, call.method) : IsReturned(o)

\* C7: when curve_fit raises, for either model, fit_psychophysical_curve
\* returns seven None fields and analyze_dataset returns a result record.
C7_OptimizerFailureContained ==
    /\ (FitReturned /\ IsRaised(call.outcome)) => call.ret = SevenNone
    /\ (call.fn = "analyze_dataset" /\ IsRaised(call.outcome)) =>
          /\ ~IsRaised(call.ret)
          /\ call.ret.fit_params = None

C7_Witness ==
    /\ call.fn = "analyze_dataset"
    /\ call.method = "cumulative_normal"
    /\ IsRaised(call.outcome)
    /\ ~IsRaised(call.ret)

C7_WitnessInfeasible ==
    /\ FitReturned
    /\ call.method = "logistic"
    /\ call.outcome = Raised("ValueError")
    /\ call.ret = SevenNone

\* C8: in a run of main every loaded dataset is analysed exactly once, gets
\* one result record and one summary row, and the run reaches the summary
\* table, whatever the outcomes of the other datasets.
C8_RunReachesSummary ==
    /\ pc /= "crashed"
    /\ pc \in {"summary", "done"} =>
          /\ analysed = [i \in DOMAIN all_data |-> all_data[i].name]
          /\ Len(results) = Len(all_data)
          /\ Len(threshold_summary) = Len(all_data)

\* C9: simple_threshold_estimate returns NaN exactly when fewer than 3 levels
\* qualify; with 3 or more it returns a number.
C9_NaNIffFewerThanThreeLevels ==
    SimpleReturned =>
        /\ IsNaN(call.ret.threshold) <=> Cardinality(QualifyingIntensities) < 3
        /\ Cardinality(QualifyingIntensities) >= 3 => IsNum(call.ret.threshold)

C9_Witness ==
    /\ SimpleReturned
    /\ Cardinality(QualifyingIntensities) = 3
    /\ IsNum(call.ret.threshold)

\* C10: in a result record a determined fitted threshold has fit_params and a
\* numeric threshold_707, an undetermined one has fit_params and NaN, and a
\* failed or skipped fit has no fit_params; an undetermined threshold is never
\* encoded as absent fit_params or as the number 0.
C10_OutcomesDistinguishable ==
    AnalyzeReturned =>
        LET r == call.ret
            o == call.outcome
            achievable == /\ RLt(o.popt[1], Target) /\ RLt(Target, o.popt[4])
                          /\ RLt(FromInt(0), o.popt[2])
        IN  /\ ~IsReturned(o) => r.fit_params = None
            /\ IsReturned(o) =>
                  /\ r.fit_params = Arr(o.popt)
                  /\ IsNum(r.threshold_707) \/ IsNaN(r.threshold_707)
                  /\ (call.method = "logistic" /\ ~achievable) =>
                        IsNaN(r.threshold_707)
                  /\ (call.method = "logistic" /\ IsNum(r.threshold_707)) =>
                        /\ achievable
                        /\ RLe(FromInt(ArrMin(r.x_data.arr)), r.threshold_707)
                        /\ RLe(r.threshold_707, FromInt(ArrMax(r.x_data.arr)))

C10_Witness ==
    /\ AnalyzeReturned
    /\ call.method = "logistic"
    /\ IsReturned(call.outcome)
    /\ call.ret.fit_params /= None
    /\ IsNaN(call.ret.threshold_707)

\* the trials of all sessions, as (session, row) positions
TrialPositions ==
    UNION {{<<s, i>> : i \in DOMAIN dataset_data[s].data} : s \in DOMAIN dataset_data}
CorrectPositions ==
    {p \in TrialPositions : dataset_data[p[1]].data[p[2]].correct}

\* C11: in every result of analyze_dataset n_trials, overall_accuracy and
\* stimulus_range are taken over all trials of all sessions, those at
\* intensities with fewer than 2 trials included, and they do not depend on
\* whether the fit succeeds or fails (the values required are functions of
\* the session tables alone, in success and in failure records alike).
C11_DescriptivesOverAllTrials ==
    AnalyzeReturned =>
        LET r == call.ret
        IN  /\ r.n_trials = Cardinality(TrialPositions)
            /\ r.overall_accuracy =
                  Rat(Cardinality(CorrectPositions), Cardinality(TrialPositions))
            /\ r.stimulus_range =
                  <<SetMin(DistinctIntensities), SetMax(DistinctIntensities)>>

\* a record whose range ends at intensities the aggregation discarded, and
\* whose accuracy counts a correct trial at one of them
C11_Witness ==
    /\ AnalyzeReturned
    /\ Len(call.ret.x_data.arr) >= 1
    /\ call.ret.stimulus_range[1] < ArrMin(call.ret.x_data.arr)
    /\ call.ret.stimulus_range[2] > ArrMax(call.ret.x_data.arr)
    /\ \E p \in CorrectPositions :
          dataset_data[p[1]].data[p[2]].cmpPx \notin QualifyingIntensities
    /\ call.ret.n_trials > Len(call.ret.x_data.arr)

\* C12: for the same trials fit_psychophysical_curve aggregates the same
\* levels as simple_threshold_estimate: a successful fit returns the levels
\* the interpolator returns, so x_data, y_data and n_trials_per_level of a
\* result record are the interpolator's levels on both branches.
C12_SameLevelsBothEstimators ==
    LET s == simple_threshold_estimate(InCmpPx, InCorrect, Target)
    IN  /\ FitReturned =>
              /\ Arr(fit_levels(InCmpPx, InCorrect).x_data) = s.x_data
              /\ (call.ret /= None /\ call.ret.popt /= None) =>
                    /\ call.ret.x_data = s.x_data
                    /\ call.ret.y_data = s.y_data
                    /\ call.ret.n_trials = s.n_trials
        /\ AnalyzeReturned =>
              /\ call.ret.x_data = s.x_data
              /\ call.ret.y_data = s.y_data
              /\ call.ret.n_trials_per_level = s.n_trials

C12_Witness ==
    /\ FitReturned
    /\ call.ret /= None
    /\ call.ret.popt /= None
    /\ Len(call.ret.x_data.arr) >= 4
    /\ \E i \in DOMAIN call.ret.y_data.arr :
          /\ RLt(FromInt(0), call.ret.y_data.arr[i])
          /\ RLt(call.ret.y_data.arr[i], FromInt(1))

CorrectTrialsAt(x) ==
    Cardinality({p \in CorrectPositions : dataset_data[p[1]].data[p[2]].cmpPx = x})

LevelsGroupTrials(x, y, n) ==
    /\ {x[i] : i \in DOMAIN x} = QualifyingIntensities
    /\ Len(x) = Cardinality(QualifyingIntensities)
    /\ DOMAIN y = DOMAIN x
    /\ DOMAIN n = DOMAIN x
    /\ \A i \in DOMAIN x :
          /\ n[i] = TrialsAt(x[i])
          /\ y[i] = Rat(CorrectTrialsAt(x[i]), TrialsAt(x[i]))
          /\ RLe(FromInt(0), y[i])
          /\ RLe(y[i], FromInt(1))

\* C13: each level emitted by either aggregation loop groups exactly the
\* trials at its intensity: its count is their number, its proportion is
\* (correct ones) / count and lies in [0, 1], and every intensity with at
\* least 2 trials is emitted exactly once.
C13_LevelsGroupTrialsByIntensity ==
    /\ SimpleReturned =>
          LevelsGroupTrials(call.ret.x_data.arr, call.ret.y_data.arr,
                            call.ret.n_trials.arr)
    /\ FitReturned =>
          LET lv == fit_levels(InCmpPx, InCorrect)
          IN  /\ LevelsGroupTrials(lv.x_data, lv.y_data, lv.n_trials)
              /\ (call.ret /= None /\ call.ret.popt /= None) =>
                    /\ call.ret.x_data = Arr(lv.x_data)
                    /\ call.ret.y_data = Arr(lv.y_data)
                    /\ call.ret.n_trials = Arr(lv.n_trials)

\* levels with different proportions, one of them mixed, beside a discarded
\* intensity whose only trial is correct
C13_Witness ==
    /\ SimpleReturned
    /\ \E i \in DOMAIN call.ret.y_data.arr : call.ret.y_data.arr[i] = Rat(1, 2)
    /\ \E i \in DOMAIN call.ret.y_data.arr : call.ret.y_data.arr[i] = FromInt(0)
    /\ \E x \in DistinctIntensities \ QualifyingIntensities : CorrectTrialsAt(x) = 1

\* the level set (400, 0.5), (450, 0.6), (500, 0.75), (550, 0.9), (600, 0.95)
ScenarioProportions == <<Rat(1, 2), Rat(3, 5), Rat(3, 4), Rat(9, 10), Rat(19, 20)>>
ScenarioInterpolated ==
    /\ call.fn = "interpolation"
    /\ call.levels.x_data = LevelIntensities
    /\ call.levels.y_data = ScenarioProportions

\* C14 as stated: on that level set with target 0.707 the first level at or
\* above target is (550, 0.9) and the threshold lies strictly between 500
\* and 550.
C14_ScenarioBetween500And550 ==
    ScenarioInterpolated =>
        /\ SetMin(AtOrAbove(call.levels.y_data)) = 4
        /\ RLt(FromInt(500), call.ret)
        /\ RLt(call.ret, FromInt(550))

\* C14: on that level set with target 0.707 the first level at or above
\* target is (500, 0.75), its predecessor is (450, 0.6), and the threshold
\* is 450 + (0.707 - 0.6) * 50 / (0.75 - 0.6) = 1457/3, strictly between 450
\* and 500.
C14_ScenarioBetween450And500 ==
    ScenarioInterpolated =>
        /\ SetMin(AtOrAbove(call.levels.y_data)) = 3
        /\ call.ret = RAdd(FromInt(450),
                           RDiv(RMul(RSub(Target, Rat(3, 5)), FromInt(50)),
                                RSub(Rat(3, 4), Rat(3, 5))))
        /\ call.ret = Rat(1457, 3)
        /\ RLt(FromInt(450), call.ret)
        /\ RLt(call.ret, FromInt(500))

C14_Witness ==
    /\ ScenarioInterpolated
    /\ IsNum(call.ret)

\* C15: no call of simple_threshold_estimate, fit_psychophysical_curve or
\* analyze_dataset changes the session tables; the intensity and correct
\* arrays an estimator was given hold after the call what they held before
\* it, whether the call returns a fit, a failure record or raises; and
\* analysing the tables a second time with the same method gives the result
\* of the first analysis.
C15_InputsUnchangedAndRepeatable ==
    /\ [][dataset_data' = dataset_data]_vars
    /\ [](call.fn \in {"simple_threshold_estimate", "fit_psychophysical_curve",
                       "analyze_dataset", "analyze_dataset_again"} =>
              call.inputs_after = [cmpPx |-> InCmpPx, correct |-> InCorrect])
    /\ [](call.fn = "analyze_dataset_again" => call.ret = call.first)

\* a second analysis of two sessions that fitted a curve both times, after
\* the merge loop and both aggregation loops have run over the columns
C15_Witness ==
    /\ call.fn = "analyze_dataset_again"
    /\ ~IsRaised(call.ret)
    /\ call.ret.fit_params /= None
    /\ Len(dataset_data) = 2
    /\ call.ret.overall_accuracy = Rat(1, 2)
    /\ Len(call.inputs_after.cmpPx) = call.ret.n_trials
    /\ Len(analyze_heap(dataset_data).locals["x_data"]) >= 4

\* C16: with at least 4 qualifying levels fit_psychophysical_curve returns a
\* seven-field result for every method value, also one that is neither
\* 'logistic' nor 'cumulative_normal', so analyze_dataset returns a record
\* and does not raise.
C16_EveryMethodYieldsRecord ==
    Cardinality(QualifyingIntensities) >= 4 =>
        /\ FitReturned =>
              /\ call.ret /= None
              /\ DOMAIN call.ret = DOMAIN SevenNone
        /\ call.fn = "analyze_dataset" => ~IsRaised(call.ret)

\* the logistic branch handed p0 and bounds to curve_fit in this call
LogisticOptimizerCalled ==
    /\ FitReturned
    /\ call.method = "logistic"
    /\ call.outcome /= NoCall

\* C17: whenever the logistic branch calls the optimizer (at least 4
\* qualifying levels), every lower bound is strictly below its upper bound
\* and the initial guess (a0, b0, c0, d0) lies within the bounds, a0 being
\* the minimum observed proportion and d0 the maximum.
C17_LogisticGuessWithinBounds ==
    LogisticOptimizerCalled =>
        LET lv == fit_levels(InCmpPx, InCorrect)
            s == logistic_setup(lv.x_data, lv.y_data)
        IN  /\ Len(lv.x_data) >= 4
            /\ s.p0[1] = RArrMin(lv.y_data)
            /\ s.p0[4] = RArrMax(lv.y_data)
            /\ \A i \in 1..4 :
                  /\ RLt(s.lower[i], s.upper[i])
                  /\ RLe(s.lower[i], s.p0[i])
                  /\ RLe(s.p0[i], s.upper[i])

\* the levels whose proportion is at least 0.7, by position
ReachingSeventy(y) == {i \in DOMAIN y : RLe(Rat(7, 10), y[i])}

\* the midpoint of the intensity range, min + range/2
RangeMidpoint(x) == Rat(ArrMin(x) + ArrMax(x), 2)

\* C18: in the logistic fit the inflection guess c0 is the intensity of the
\* first level, ascending, with proportion at least 0.7 (every level before
\* it is below 0.7); when no level has one it is the midpoint min + range/2;
\* c0 lies within [min, max]. The value of c0 does not tell the two cases
\* apart: the first such level may sit at the midpoint.
C18_InflectionGuessFirstCrossing ==
    call.fn = "logistic_guess" =>
        LET x == call.levels.x_data
            y == call.levels.y_data
            c0 == call.ret.p0[3]
            reaching == ReachingSeventy(y)
        IN  /\ reaching /= {} =>
                  /\ c0 = FromInt(x[SetMin(reaching)])
                  /\ \A j \in DOMAIN y : j < SetMin(reaching) => RLt(y[j], Rat(7, 10))
            /\ reaching = {} => c0 = RangeMidpoint(x)
            /\ RLe(FromInt(ArrMin(x)), c0)
            /\ RLe(c0, FromInt(ArrMax(x)))

\* C18 as stated: c0 is the first crossing level's intensity, and c0 is the
\* midpoint exactly when no level has proportion at least 0.7.
C18_MidpointExactlyWhenNoCrossing ==
    call.fn = "logistic_guess" =>
        LET x == call.levels.x_data
            y == call.levels.y_data
            c0 == call.ret.p0[3]
            reaching == ReachingSeventy(y)
        IN  /\ reaching /= {} => c0 = FromInt(x[SetMin(reaching)])
            /\ (c0 = RangeMidpoint(x)) <=> (reaching = {})
            /\ RLe(FromInt(ArrMin(x)), c0)
            /\ RLe(c0, FromInt(ArrMax(x)))

\* proportions 0.5, 0.6, 0.75, 0.9, 0.95 at 400..600: the first level that
\* reaches 0.7 is the middle one, 500, which is also the midpoint of the range
C18_Witness ==
    /\ call.fn = "logistic_guess"
    /\ call.levels.y_data = ScenarioProportions
    /\ ReachingSeventy(call.levels.y_data) = {3, 4, 5}
    /\ call.ret.p0[3] = FromInt(500)
    /\ call.ret.p0[3] = RangeMidpoint(call.levels.x_data)

\* C19: simple_threshold_estimate never takes the flat-segment midpoint
\* fallback: when the first level at or above target has a predecessor, the
\* predecessor's proportion y1 is below target and the level's proportion y2
\* is at or above it, so y1 < y2, the interpolation formula is used and its
\* result t satisfies x1 < t <= x2.
C19_FlatFallbackNeverTaken ==
    (SimpleReturned /\ Len(call.ret.x_data.arr) >= 3) =>
        LET x == call.ret.x_data.arr
            y == call.ret.y_data.arr
            t == call.ret.threshold
            taken == simple_interpolation(x, y, Target)
        IN  /\ taken.threshold = t
            /\ taken.branch /= "flat_midpoint"
            /\ (AtOrAbove(y) /= {} /\ 1 \notin AtOrAbove(y)) =>
                  LET k == SetMin(AtOrAbove(y))
                  IN  /\ taken.branch = "interpolated"
                      /\ RLt(y[k - 1], Target)
                      /\ RLe(Target, y[k])
                      /\ RLt(y[k - 1], y[k])
                      /\ RLt(FromInt(x[k - 1]), t)
                      /\ RLe(t, FromInt(x[k]))

\* the interpolation branch, on levels that do hold a flat segment
C19_Witness ==
    /\ SimpleReturned
    /\ Len(call.ret.x_data.arr) >= 3
    /\ simple_interpolation(call.ret.x_data.arr, call.ret.y_data.arr,
                            Target).branch = "interpolated"
    /\ \E i \in DOMAIN call.ret.y_data.arr :
          /\ i > 1
          /\ call.ret.y_data.arr[i] = call.ret.y_data.arr[i - 1]

\* the optimizer was called by fit_psychophysical_curve in this call
OptimizerCalledByFit == FitReturned /\ call.outcome /= NoCall

\* sigma is 1/(sqrt(n) * f) per level, with f as given, the weights are
\* positive, and among levels of equal trial count one farther from 0.5 has
\* no larger weight
SigmaFromWeights(sigma, y, n, f) ==
    /\ DOMAIN sigma = DOMAIN y
    /\ \A i \in DOMAIN y :
          /\ sigma[i] = [one_over |-> [sqrt_of |-> n[i], times |-> f[i]]]
          /\ sigma[i].one_over.sqrt_of > 0
          /\ RLt(FromInt(0), sigma[i].one_over.times)
    /\ \A i \in DOMAIN y : \A j \in DOMAIN y :
          (n[i] = n[j] /\ RLe(RAbs(RSub(y[j], Rat(1, 2))), RAbs(RSub(y[i], Rat(1, 2)))))
              => RLe(sigma[i].one_over.times, sigma[j].one_over.times)

DownWeighted(y) ==
    [i \in DOMAIN y |->
        LET dist == IF RLt(y[i], Rat(1, 2)) THEN RSub(Rat(1, 2), y[i])
                    ELSE RSub(y[i], Rat(1, 2))
        IN  RSub(FromInt(1), RDiv(dist, FromInt(2)))]

\* C20 as stated: for both models the weight of a level behind the sigma
\* handed to the optimizer is sqrt(trial_count) * (1 - 0.5 * |p - 0.5|),
\* positive, and not larger for a level farther from 0.5 at equal count.
C20_DownWeightedInBothModels ==
    OptimizerCalledByFit =>
        LET lv == fit_levels(InCmpPx, InCorrect)
        IN  SigmaFromWeights(call.sigma.arr, lv.y_data, lv.n_trials,
                             DownWeighted(lv.y_data))

\* C20: in the logistic fit the weight of a level is sqrt(trial_count) *
\* (1 - 0.5 * |p - 0.5|); in the cumulative normal fit it is
\* sqrt(trial_count) alone; in both it is positive and, at equal trial
\* count, not larger for a level farther from 0.5.
C20_DownWeightedInLogisticOnly ==
    OptimizerCalledByFit =>
        LET lv == fit_levels(InCmpPx, InCorrect)
        IN  SigmaFromWeights(call.sigma.arr, lv.y_data, lv.n_trials,
                             IF call.method = "logistic"
                             THEN DownWeighted(lv.y_data)
                             ELSE [i \in DOMAIN lv.y_data |-> FromInt(1)])

\* a cumulative normal fit with a level at proportion 1 and one at 1/2
C20_Witness ==
    /\ OptimizerCalledByFit
    /\ call.method = "cumulative_normal"
    /\ \E i \in DOMAIN call.sigma.arr :
          fit_levels(InCmpPx, InCorrect).y_data[i] = FromInt(1)
    /\ \E i \in DOMAIN call.sigma.arr :
          fit_levels(InCmpPx, InCorrect).y_data[i] = Rat(1, 2)

\* C21: load_and_process_data changes the current directory only while it
\* is inside a dataset directory: at the head of its loop (before the first
\* and after each dataset), when it returns and when an exception leaves it,
\* the current directory is the one it was called from; this includes a
\* missing dataset path, a session file that fails to parse, a directory
\* whose enumeration fails, and an exception of the filename-timestamp
\* parsing.
C21_CurrentDirectoryRestored ==
    /\ pc \in {"load_loop", "load_returned", "load_raised"} =>
          cwd = call.called_from
    /\ pc \in {"load_try", "load_finally"} =>
          /\ original_dir = call.called_from
          /\ cwd = Append(call.called_from, DatasetPath(DATASETS[next_dataset]))

\* an exception of the timestamp parsing has left the function in the third
\* dataset, after a skipped path and a dataset with a file that failed to
\* parse
C21_Witness ==
    /\ pc = "load_raised"
    /\ call.pending = Raised("ValueError")
    /\ next_dataset = 3
    /\ call.fs[1].kind = "missing"
    /\ call.fs[2].kind = "directory"
    /\ call.fs[2].files = <<MalformedFile, OlderFile>>
    /\ Len(all_data) = 1
    /\ original_dir = call.called_from
    /\ cwd = call.called_from

====
